---- MODULE Spec2Model ----
(***************************************************************************)
(* Connection-exhaustion load harness of DataBase_Stress.                  *)
(*                                                                         *)
(*   run(totalConnections, timeoutMs)   src/src/load_test/mongo.js,        *)
(*                                      src/src/load_test/postgress.js     *)
(*                                      (postgres and mysql variants)      *)
(*   testDatabase(dbName)               src/unnamed/part_000               *)
(*                                                                         *)
(* JavaScript is single threaded: the code between two awaits runs         *)
(* atomically, so every action below is one such continuation: the         *)
(* completion of an adapter call (or the firing of a timer) together with  *)
(* everything the attempt does until its next await.                       *)
(*                                                                         *)
(* The database drivers and the promise-timeout package are dependencies:  *)
(* an adapter call may resolve, reject or stay pending, and                *)
(* promiseTimeout.timeout(p, ms) rejects with its TimeoutError (message    *)
(* 'Timeout', no code) when its timer fires before p settles.              *)
(* testDatabase is modelled as a function; the evaluation of DB_CONFIG at  *)
(* module load (part_000:17-47) is not part of it.                         *)
(***************************************************************************)
EXTENDS Integers, Sequences, FiniteSets

\* ----------------------------------------------------------------- bounds
MaxConnections == 2      \* largest attempt count of a batch
MaxDuration    == 2      \* measured durations (ms) range over 1..MaxDuration
MaxMemory      == 2      \* rss samples range over 1..MaxMemory
MaxRequests    == 3      \* concurrent POST /code-fast requests
MaxCodes       == 2      \* generateCode() yields one of MaxCodes codes

\* ------------------------------------------------------- program constants
\* part_000:9 sets 500; the model runs the same loop over MaxConnections attempts
TOTAL_CONNECTIONS == MaxConnections
CONNECTION_TIMEOUT_MS == 10000

Attempts   == 1..MaxConnections
Durations  == 1..MaxDuration
MemSamples == 1..MaxMemory
Databases  == {"postgres", "mysql", "mongodb"}

\* timeoutMs arguments given to run: a non-positive and a positive one
TimeoutArgs == {0, 1}

\* ------------------------------------------------------------ error values
\* An Error as the harness reads it: error.code and error.message.
\* "" stands for a missing (undefined) or empty property: both are falsy.
\* The adapters' errors: one with a native code, one with neither a code nor
\* a message (promise-timeout's error below has a message only).
AdapterErrors ==
  { [code |-> "ECONNREFUSED", message |-> "connect ECONNREFUSED"],
    [code |-> "",             message |-> ""] }

\* promise-timeout's TimeoutError: no code, message 'Timeout'
TimeoutError == [code |-> "", message |-> "Timeout"]

\* const errorMsg = error.code || error.message
ErrorKey(error) == IF error.code # "" THEN error.code ELSE error.message

\* results.errors.includes(errorMsg)
Includes(errors, errorMsg) == \E k \in 1..Len(errors) : errors[k] = errorMsg

\* ---------------------------------------------------- updates of `results`
\* try block, after the last await: push the latency, count the success
RecordSuccess(r, durationMs) ==
  [r EXCEPT !.responseTimes = Append(@, durationMs),
            !.successful = @ + 1]

\* mutation: the catch block records the key but forgets results.failed++
RecordFailure_Uncounted(r, error) ==
  LET errorMsg == ErrorKey(error) IN
  [r EXCEPT !.errors = IF Includes(@, errorMsg) THEN @ ELSE Append(@, errorMsg)]

\* mutation: the catch block pushes the key without the includes() test
RecordFailure_NoDedupe(r, error) ==
  [r EXCEPT !.failed = @ + 1, !.errors = Append(@, ErrorKey(error))]

\* catch (error) { results.failed++; ... push the key if it is new }
RecordFailure(r, error) ==
  LET errorMsg == ErrorKey(error) IN
  [r EXCEPT !.failed = @ + 1,
            !.errors = IF Includes(@, errorMsg) THEN @ ELSE Append(@, errorMsg)]

\* testDatabase: .catch of the deadline wrapper
RecordTimeout(r) ==
  [r EXCEPT !.failed = @ + 1,
            !.errors = IF Includes(@, "Connection Timeout")
                       THEN @ ELSE Append(@, "Connection Timeout")]

\* finally: if (currentMemory > results.peakMemory) results.peakMemory = currentMemory
SampleMemory(r, currentMemory) ==
  [r EXCEPT !.peakMemory = IF currentMemory > @ THEN currentMemory ELSE @]

RECURSIVE Sum(_)
Sum(s) == IF s = <<>> THEN 0 ELSE Head(s) + Sum(Tail(s))

\* responseTimes.length > 0 ? Math.round(sum / length) : 0   (toFixed(0) in testDatabase)
AvgResponseTime(responseTimes) ==
  IF Len(responseTimes) > 0
  THEN (2 * Sum(responseTimes) + Len(responseTimes)) \div (2 * Len(responseTimes))
  ELSE 0

\* ------------------------------------------------------------------- state
VARIABLES
  harness,           \* "run" (load_test modules) or "testDatabase"
  dbName,            \* which adapter
  totalConnections,  \* argument of run / TOTAL_CONNECTIONS
  timeoutMs,         \* argument of run / CONNECTION_TIMEOUT_MS
  phase,             \* "start", "running" (awaiting Promise.allSettled), "returned"
  results,           \* the shared results object
  summary,           \* what the batch reported once it settled
  pc,                \* per attempt: the await the async closure is suspended at
  timer,             \* per attempt: the setTimeout of promiseTimeout.timeout
  client,            \* per attempt: whether `client` / `connection` is assigned
  conn,              \* per attempt: the connection on the database side
  closeIssued,       \* per attempt: the attempt has called close()/end()
  seen,              \* per attempt: results of its awaited connect, query, close
  counted,           \* per attempt: outcomes it has added to results, in order
  stale,             \* runAllTests: closures of earlier databases still executing
  redis,             \* express.js: codes:unique, codes:seq, code:<id>, codes:sync_queue
  req                \* express.js: per POST /code-fast request, where its handler is

vars == <<harness, dbName, totalConnections, timeoutMs, phase, results, summary,
          pc, timer, client, conn, closeIssued, seen, counted, stale, redis, req>>

express == <<redis, req>>

Requests == 1..MaxRequests
Codes    == 1..MaxCodes

\* an empty Redis
NewRedis == [unique |-> {}, seq |-> 0, hashes |-> {}, queue |-> <<>>]

\* a request that has not arrived yet
NoRequest == [pc |-> "idle", code |-> 0, id |-> 0, status |-> 0]

params == <<harness, dbName, totalConnections, timeoutMs>>

\* const results = { successful: 0, failed: 0, errors: [], responseTimes: [], peakMemory: 0 }
NewResults ==
  [successful |-> 0, failed |-> 0, errors |-> <<>>, responseTimes |-> <<>>,
   peakMemory |-> 0]

\* ['Primary Error:', results.errors[0] || 'None']   (testDatabase's table)
PrimaryError(errors) ==
  IF errors # <<>> /\ errors[1] # "" THEN errors[1] ELSE "None"

NoSummary == [results |-> NewResults, avgResponseTime |-> 0, primaryError |-> ""]

Init ==
  /\ harness \in {"run", "testDatabase"}
  /\ dbName \in Databases
  /\ totalConnections \in (IF harness = "run" THEN 0..MaxConnections
                                              ELSE {TOTAL_CONNECTIONS})
  /\ timeoutMs \in (IF harness = "run" THEN TimeoutArgs
                                       ELSE {CONNECTION_TIMEOUT_MS})
  /\ phase = "start"
  /\ results = NewResults
  /\ summary = NoSummary
  /\ pc = [i \in Attempts |-> "idle"]
  /\ timer = [i \in Attempts |-> "none"]
  /\ client = [i \in Attempts |-> FALSE]
  /\ conn = [i \in Attempts |-> "none"]
  /\ closeIssued = [i \in Attempts |-> FALSE]
  /\ seen = [i \in Attempts |-> <<>>]
  /\ counted = [i \in Attempts |-> <<>>]
  /\ stale = 0
  /\ redis = NewRedis
  /\ req = [r \in Requests |-> NoRequest]

\* ------------------------------------------------------------------ launch
\* mutation: the loop awaits each attempt before starting the next, so the
\* attempts after the first are not started with it
LaunchSet_Awaited(total) == IF total > 0 THEN {1} ELSE {}

\* mutation: the loop condition is i <= totalConnections
LaunchSet_OffByOne(total) == 1..(total + 1)

\* for (let i = 0; i < totalConnections; i++): the attempts the loop starts
LaunchSet(total) == 1..total

\* pg and mongodb construct the client before connecting; mysql's
\* createConnection yields the connection only when it resolves
ClientBeforeConnect(db) == db \in {"postgres", "mongodb"}

\* The synchronous part of run / testDatabase: create results, start every
\* attempt up to its first await (the connect raced against the timer in run;
\* the connect, with the wrapper's timer armed, in testDatabase), then await
\* Promise.allSettled(promises).
Start ==
  /\ phase = "start"
  /\ phase' = "running"
  /\ pc' = [i \in Attempts |-> IF i \in LaunchSet(totalConnections) THEN "connect" ELSE "idle"]
  /\ timer' = [i \in Attempts |-> IF i \in LaunchSet(totalConnections) THEN "armed" ELSE "none"]
  /\ conn' = [i \in Attempts |-> IF i \in LaunchSet(totalConnections) THEN "connecting" ELSE "none"]
  /\ client' = [i \in Attempts |->
                  i \in LaunchSet(totalConnections) /\ ClientBeforeConnect(dbName)]
  /\ UNCHANGED <<params, stale, express, results, summary, closeIssued, seen, counted>>

\* ---------------------------------------------------------------- attempts
\* what an awaited adapter call yielded
Ok == [ok |-> TRUE, error |-> [code |-> "", message |-> ""]]
Failed(error) == [ok |-> FALSE, error |-> error]

Saw(i, result) == [seen EXCEPT ![i] = Append(@, result)]
Counted(i, outcome) == [counted EXCEPT ![i] = Append(@, outcome)]

\* promiseTimeout.timeout: clearTimeout(timeout) once the raced promise settles
Cleared(i) == [timer EXCEPT ![i] = IF @ = "armed" THEN "cleared" ELSE @]

\* All timers of a batch are armed in launch order with the same delay, so
\* they expire in launch order.
MayExpire(i) == timer[i] = "armed" /\ \A k \in 1..(i - 1) : timer[k] # "armed"

\* The finally block, entered with results already updated to r.
\*   run:          if (client) await client.close().catch(() => {});  then sample
\*   testDatabase: sample only; the async closure is then finished
Finally(i, r, hasClient, currentMemory) ==
  IF harness = "run" /\ hasClient
  THEN /\ pc' = [pc EXCEPT ![i] = "cleanup"]
       /\ closeIssued' = [closeIssued EXCEPT ![i] = TRUE]
       /\ results' = r
  ELSE /\ pc' = [pc EXCEPT ![i] = "done"]
       /\ closeIssued' = closeIssued
       /\ results' = SampleMemory(r, currentMemory)

\* The timer once the closure of attempt i has finished: in testDatabase the
\* wrapper around the closure resolves and clears its timer; run has no wrapper.
WhenFinished(i) == IF harness = "testDatabase" THEN Cleared(i) ELSE timer

\* connect() / createConnection() resolves while the attempt awaits it
ConnectOk(i) ==
  /\ pc[i] = "connect"
  /\ pc' = [pc EXCEPT ![i] = "query"]
  /\ conn' = [conn EXCEPT ![i] = "open"]
  /\ client' = [client EXCEPT ![i] = TRUE]
  /\ seen' = Saw(i, Ok)
  /\ timer' = IF harness = "run" THEN Cleared(i) ELSE timer
  /\ UNCHANGED <<params, stale, express, phase, results, summary, closeIssued, counted>>

\* connect() / createConnection() rejects while the attempt awaits it
ConnectErr(i) ==
  /\ pc[i] = "connect"
  /\ \E error \in AdapterErrors, currentMemory \in MemSamples :
       /\ seen' = Saw(i, Failed(error))
       /\ counted' = Counted(i, ErrorKey(error))
       /\ Finally(i, RecordFailure(results, error), client[i], currentMemory)
  /\ conn' = [conn EXCEPT ![i] = "failed"]
  /\ timer' = Cleared(i)
  /\ UNCHANGED <<params, stale, express, phase, summary, client>>

\* run: the timer of promiseTimeout.timeout(connect, timeoutMs) fires first;
\* the await throws TimeoutError, the connect itself stays in flight
RunTimerFire(i) ==
  /\ harness = "run"
  /\ pc[i] = "connect"
  /\ MayExpire(i)
  /\ timer' = [timer EXCEPT ![i] = "fired"]
  /\ counted' = Counted(i, ErrorKey(TimeoutError))
  /\ \E currentMemory \in MemSamples :
       Finally(i, RecordFailure(results, TimeoutError), client[i], currentMemory)
  /\ UNCHANGED <<params, stale, express, phase, summary, client, conn, seen>>

\* testDatabase: the timer of promiseTimeout.timeout(promise, CONNECTION_TIMEOUT_MS)
\* fires before the closure has finished; the wrapper's catch counts a failure
WrapperTimerFire(i) ==
  /\ harness = "testDatabase"
  /\ MayExpire(i)
  /\ timer' = [timer EXCEPT ![i] = "fired"]
  /\ results' = RecordTimeout(results)
  /\ counted' = Counted(i, "Connection Timeout")
  /\ UNCHANGED <<params, stale, express, phase, summary, pc, client, conn, closeIssued, seen>>

\* the round-trip query resolves; the attempt calls close()/end() and awaits it
QueryOk(i) ==
  /\ pc[i] = "query"
  /\ pc' = [pc EXCEPT ![i] = "close"]
  /\ closeIssued' = [closeIssued EXCEPT ![i] = TRUE]
  /\ seen' = Saw(i, Ok)
  /\ UNCHANGED <<params, stale, express, phase, results, summary, timer, client, conn, counted>>

\* the round-trip query rejects
QueryErr(i) ==
  /\ pc[i] = "query"
  /\ \E error \in AdapterErrors, currentMemory \in MemSamples :
       /\ seen' = Saw(i, Failed(error))
       /\ counted' = Counted(i, ErrorKey(error))
       /\ Finally(i, RecordFailure(results, error), client[i], currentMemory)
  /\ timer' = WhenFinished(i)
  /\ UNCHANGED <<params, stale, express, phase, summary, client, conn>>

\* the close()/end() of the try block resolves: duration, push, successful++
CloseOk(i) ==
  /\ pc[i] = "close"
  /\ \E durationMs \in Durations, currentMemory \in MemSamples :
       Finally(i, RecordSuccess(results, durationMs), client[i], currentMemory)
  /\ seen' = Saw(i, Ok)
  /\ counted' = Counted(i, "success")
  /\ conn' = [conn EXCEPT ![i] = "closed"]
  /\ timer' = WhenFinished(i)
  /\ UNCHANGED <<params, stale, express, phase, summary, client>>

\* the close()/end() of the try block rejects: control goes to catch
CloseErr(i) ==
  /\ pc[i] = "close"
  /\ \E error \in AdapterErrors, currentMemory \in MemSamples :
       /\ seen' = Saw(i, Failed(error))
       /\ counted' = Counted(i, ErrorKey(error))
       /\ Finally(i, RecordFailure(results, error), client[i], currentMemory)
  /\ timer' = WhenFinished(i)
  /\ UNCHANGED <<params, stale, express, phase, summary, client, conn>>

\* run: the close()/end() of the finally block settles (a rejection is
\* swallowed by .catch(() => {})); then the memory sample
CleanupDone(i) ==
  /\ harness = "run"
  /\ pc[i] = "cleanup"
  /\ pc' = [pc EXCEPT ![i] = "done"]
  /\ \E closed \in BOOLEAN :
       conn' = [conn EXCEPT ![i] = IF closed /\ @ = "open" THEN "closed" ELSE @]
  /\ \E currentMemory \in MemSamples : results' = SampleMemory(results, currentMemory)
  /\ UNCHANGED <<params, stale, express, phase, summary, timer, client, closeIssued, seen, counted>>

\* run: a connect that lost the race against the timer resolves later; nothing
\* awaits it any more. (Its rejecting instead changes nothing the model
\* observes: the connection simply never opens.)
LateConnect(i) ==
  /\ harness = "run"
  /\ pc[i] # "connect"
  /\ conn[i] = "connecting"
  /\ conn' = [conn EXCEPT ![i] = "open"]
  /\ UNCHANGED <<params, stale, express, phase, results, summary, pc, timer, client, closeIssued,
                 seen, counted>>

\* -------------------------------------------------------------------- join
\* the promise pushed for attempt i has settled: in run the async closure
\* itself, in testDatabase the deadline wrapper around it
Settled(i) ==
  IF harness = "run" THEN pc[i] = "done" ELSE timer[i] \in {"fired", "cleared"}

\* mutation: a fail-fast join (Promise.all over attempts that rethrow) also
\* resumes as soon as one attempt has recorded a failure
AllSettled_FailFast(total) ==
  \/ \A i \in 1..total : Settled(i)
  \/ \E i \in 1..total : \E k \in 1..Len(counted[i]) : counted[i][k] # "success"

\* Promise.allSettled(promises)
AllSettled(total) == \A i \in 1..total : Settled(i)

\* await Promise.allSettled(promises) resumes: endTime, totalTime, the average;
\* the summary is returned (run) or rendered (testDatabase)
Join ==
  /\ phase = "running"
  /\ AllSettled(totalConnections)
  /\ phase' = "returned"
  /\ summary' = [results |-> results,
                 avgResponseTime |-> AvgResponseTime(results.responseTimes),
                 primaryError |-> IF harness = "testDatabase"
                                  THEN PrimaryError(results.errors) ELSE ""]
  /\ UNCHANGED <<params, stale, express, results, pc, timer, client, conn, closeIssued, seen, counted>>

Next ==
  \/ Start
  \/ \E i \in Attempts : ConnectOk(i)
  \/ \E i \in Attempts : ConnectErr(i)
  \/ \E i \in Attempts : RunTimerFire(i)
  \/ \E i \in Attempts : WrapperTimerFire(i)
  \/ \E i \in Attempts : QueryOk(i)
  \/ \E i \in Attempts : QueryErr(i)
  \/ \E i \in Attempts : CloseOk(i)
  \/ \E i \in Attempts : CloseErr(i)
  \/ \E i \in Attempts : CleanupDone(i)
  \/ \E i \in Attempts : LateConnect(i)
  \/ Join

Spec == Init /\ [][Next]_vars

\* --------------------------------------------- a fault of the harness itself
\* An exception raised by the harness's own statements of the try block, after
\* the last await (the duration arithmetic, the push, the increment).
HarnessFault == [code |-> "", message |-> "harness fault"]

\* the close()/end() of the try block resolves and one of the statements that
\* follow it throws: they are inside the try, so control goes to catch
CloseOkThenFault(i) ==
  /\ pc[i] = "close"
  /\ \E currentMemory \in MemSamples :
       Finally(i, RecordFailure(results, HarnessFault), client[i], currentMemory)
  /\ seen' = Saw(i, Ok)
  /\ counted' = Counted(i, ErrorKey(HarnessFault))
  /\ conn' = [conn EXCEPT ![i] = "closed"]
  /\ timer' = WhenFinished(i)
  /\ UNCHANGED <<params, stale, express, phase, summary, client>>

FaultNext ==
  \/ Next
  \/ \E i \in Attempts : CloseOkThenFault(i)

\* the harness with such faults possible
FaultSpec == Init /\ [][FaultNext]_vars

\* ------------------------------------------------------------- runAllTests
\* await testDatabase('postgres'); await testDatabase('mysql');
\* await testDatabase('mongodb')
TestsInit == Init /\ harness = "testDatabase" /\ dbName = "postgres"

NextDatabase(db) == IF db = "postgres" THEN "mysql" ELSE "mongodb"

\* closures of the batch whose async function has not finished
Executing == {i \in 1..totalConnections : pc[i] # "done"}

\* testDatabase(dbName) has returned and runAllTests calls testDatabase for
\* the next database: a new results object, and every attempt of the new
\* batch is started. Closures of the batch that returned are not cancelled;
\* the ones still executing go on in the background.
NextTest ==
  /\ harness = "testDatabase"
  /\ phase = "returned"
  /\ dbName # "mongodb"
  /\ dbName' = NextDatabase(dbName)
  /\ stale' = stale + Cardinality(Executing)
  /\ phase' = "running"
  /\ results' = NewResults
  /\ summary' = NoSummary
  /\ pc' = [i \in Attempts |-> IF i \in LaunchSet(totalConnections) THEN "connect" ELSE "idle"]
  /\ timer' = [i \in Attempts |-> IF i \in LaunchSet(totalConnections) THEN "armed" ELSE "none"]
  /\ conn' = [i \in Attempts |-> IF i \in LaunchSet(totalConnections) THEN "connecting" ELSE "none"]
  /\ client' = [i \in Attempts |->
                  i \in LaunchSet(totalConnections) /\ ClientBeforeConnect(dbName')]
  /\ closeIssued' = [i \in Attempts |-> FALSE]
  /\ seen' = [i \in Attempts |-> <<>>]
  /\ counted' = [i \in Attempts |-> <<>>]
  /\ UNCHANGED <<harness, totalConnections, timeoutMs, express>>

\* a closure of an earlier database runs to its end (it writes to the results
\* object of its own testDatabase call, which has been reported already)
StaleFinishes ==
  /\ stale > 0
  /\ stale' = stale - 1
  /\ UNCHANGED <<params, phase, results, summary, pc, timer, client, conn,
                 closeIssued, seen, counted, express>>

TestsNext ==
  \/ Start
  \/ \E i \in Attempts : ConnectOk(i)
  \/ \E i \in Attempts : ConnectErr(i)
  \/ \E i \in Attempts : WrapperTimerFire(i)
  \/ \E i \in Attempts : QueryOk(i)
  \/ \E i \in Attempts : QueryErr(i)
  \/ \E i \in Attempts : CloseOk(i)
  \/ \E i \in Attempts : CloseErr(i)
  \/ Join
  \/ NextTest
  \/ StaleFinishes

TestsSpec == TestsInit /\ [][TestsNext]_vars

\* ------------------------------------------------- express.js: POST /code-fast
\* Redis executes one command at a time. A step below is the execution of the
\* command a handler awaits together with the handler's code up to its next
\* await. The two commands of the pipeline are steps of their own: a pipeline
\* is sent as one batch but is not a transaction.
harnessVars == <<params, phase, results, summary, pc, timer, client, conn,
                 closeIssued, seen, counted, stale>>

\* the service alone: the load harness is not running
FastInit ==
  Init /\ harness = "run" /\ dbName = "postgres" /\ totalConnections = 0 /\ timeoutMs = 1

\* mutation: the handler does not look at SADD's reply
SaddReply_AlwaysNew(unique, code) == 1

\* SADD returns 1 if added (new), 0 if exists (duplicate)
SaddReply(unique, code) == IF code \in unique THEN 0 ELSE 1

\* mutation: the id is queued before the hash is stored
Pipeline_Swapped == <<"lpush", "hset">>

\* pipeline.hset(`code:${id}`, ...); pipeline.lpush("codes:sync_queue", id)
Pipeline == <<"hset", "lpush">>

\* Redis executing one command of the pipeline
Exec(cmd, store, id, code) ==
  IF cmd = "hset"
  THEN [store EXCEPT !.hashes = {h \in @ : h.id # id} \cup {[id |-> id, code |-> code]}]
  ELSE [store EXCEPT !.queue = <<id>> \o @]

\* a request arrives (requests are numbered in order of arrival):
\* const code = generateCode(), and SADD is sent
Receive(r) ==
  /\ req[r].pc = "idle"
  /\ \A q \in 1..(r - 1) : req[q].pc # "idle"
  /\ \E code \in Codes : req' = [req EXCEPT ![r] = [@ EXCEPT !.pc = "sadd", !.code = code]]
  /\ UNCHANGED <<harnessVars, redis>>

\* redis.sadd("codes:unique", code); if (isNew === 0) return res.status(409)
Sadd(r) ==
  /\ req[r].pc = "sadd"
  /\ redis' = [redis EXCEPT !.unique = @ \cup {req[r].code}]
  /\ req' = [req EXCEPT ![r] =
                IF SaddReply(redis.unique, req[r].code) = 0
                THEN [@ EXCEPT !.pc = "done", !.status = 409]
                ELSE [@ EXCEPT !.pc = "incr"]]
  /\ UNCHANGED harnessVars

\* const id = await redis.incr("codes:seq"); the pipeline is built and sent
Incr(r) ==
  /\ req[r].pc = "incr"
  /\ redis' = [redis EXCEPT !.seq = @ + 1]
  /\ req' = [req EXCEPT ![r] = [@ EXCEPT !.pc = "exec1", !.id = redis.seq + 1]]
  /\ UNCHANGED harnessVars

\* Redis executes the first command of the pipeline
PipelineFirst(r) ==
  /\ req[r].pc = "exec1"
  /\ redis' = Exec(Pipeline[1], redis, req[r].id, req[r].code)
  /\ req' = [req EXCEPT ![r] = [@ EXCEPT !.pc = "exec2"]]
  /\ UNCHANGED harnessVars

\* Redis executes the second command; await pipeline.exec() resumes and the
\* handler answers 201 with { id, code, created_at }
PipelineSecond(r) ==
  /\ req[r].pc = "exec2"
  /\ redis' = Exec(Pipeline[2], redis, req[r].id, req[r].code)
  /\ req' = [req EXCEPT ![r] = [@ EXCEPT !.pc = "done", !.status = 201]]
  /\ UNCHANGED harnessVars

FastNext ==
  \/ \E r \in Requests : Receive(r)
  \/ \E r \in Requests : Sadd(r)
  \/ \E r \in Requests : Incr(r)
  \/ \E r \in Requests : PipelineFirst(r)
  \/ \E r \in Requests : PipelineSecond(r)

FastSpec == FastInit /\ [][FastNext]_vars

\* The scheduling the runtime guarantees: synchronous code runs, an armed
\* timer fires, a resolved Promise.allSettled resumes its awaiter. Whether and
\* when an adapter call returns is up to the database and the driver.
FairSpec ==
  /\ Spec
  /\ WF_vars(Start)
  /\ WF_vars(Join)
  /\ \A i \in Attempts : WF_vars(RunTimerFire(i)) /\ WF_vars(WrapperTimerFire(i))

TypeOK ==
  /\ harness \in {"run", "testDatabase"}
  /\ dbName \in Databases
  /\ totalConnections \in 0..MaxConnections
  /\ phase \in {"start", "running", "returned"}
  /\ results.successful \in Nat /\ results.failed \in Nat
  /\ results.peakMemory \in 0..MaxMemory
  /\ \A i \in Attempts :
       /\ pc[i] \in {"idle", "connect", "query", "close", "cleanup", "done"}
       /\ timer[i] \in {"none", "armed", "fired", "cleared"}
       /\ conn[i] \in {"none", "connecting", "open", "failed", "closed"}
       /\ client[i] \in BOOLEAN /\ closeIssued[i] \in BOOLEAN
       /\ Len(seen[i]) <= 3

\* ------------------------------------------------------------------ claims
Launched == 1..totalConnections

\* attempt i has recorded a failure or a timeout
CountedFailed(i) == \E k \in 1..Len(counted[i]) : counted[i][k] # "success"

\* C1: when run returns, successful + failed equals totalConnections: every
\* attempt was counted exactly once, whatever mix of successes, connect, query
\* and close errors and connect timeouts occurred.
C1_EveryAttemptCountedOnce ==
  (harness = "run" /\ phase = "returned") =>
     /\ results.successful + results.failed = totalConnections
     /\ summary.results.successful + summary.results.failed = totalConnections
     /\ \A i \in Launched : Len(counted[i]) = 1

\* run has returned a full batch in which one attempt timed out on connect
\* and another got its connect settled by the adapter in time
C1_Witness ==
  /\ harness = "run" /\ phase = "returned"
  /\ totalConnections = MaxConnections
  /\ \E i \in Launched : timer[i] = "fired"
  /\ \E i \in Launched : timer[i] = "cleared" /\ Len(seen[i]) >= 1

\* C2 (as claimed): in testDatabase every attempt contributes at most one
\* outcome, ever, so successful + failed never exceeds TOTAL_CONNECTIONS.
C2_OneOutcomePerAttempt ==
  harness = "testDatabase" =>
     /\ \A i \in Attempts : Len(counted[i]) <= 1
     /\ results.successful + results.failed <= TOTAL_CONNECTIONS

\* C3 (as claimed): with a positive per-attempt timeout the batch eventually
\* returns even when adapter calls (connect, query, close, cleanup close)
\* never return.
C3_BatchReturnsDespiteHang ==
  (timeoutMs > 0) ~> (phase = "returned")

\* C4 (as claimed): an attempt whose deadline fired is recorded under the key
\* 'Connection Timeout' (shown for a valid, positive timeout).
C4_TimeoutSentinelKey ==
  timeoutMs > 0 =>
     \A i \in Attempts :
        timer[i] = "fired" => counted[i] # <<>> /\ Head(counted[i]) = "Connection Timeout"

\* C5: run is a wait-for-all join: it has returned only if every attempt has
\* run to the end of its finally block, and has recorded its outcome.
C5_WaitForAll ==
  (harness = "run" /\ phase = "returned") =>
     \A i \in Launched : pc[i] = "done" /\ counted[i] # <<>>

\* run has returned a batch of several attempts of which one failed and
\* another succeeded
C5_Witness ==
  /\ harness = "run" /\ phase = "returned"
  /\ totalConnections >= 2
  /\ \E i, j \in Launched : CountedFailed(i) /\ counted[j] = <<"success">>

\* C6 (as claimed): once the batch has settled the results object is never
\* mutated again.
C6_FrozenAfterSettle ==
  [][phase = "returned" => results' = results]_vars

\* C7 (as claimed): an attempt that ended as a failure or a timeout and whose
\* connection is open on the database has attempted to close it (shown for a
\* valid, positive timeout).
C7_FailedAttemptCloses ==
  timeoutMs > 0 =>
     \A i \in Attempts :
        (pc[i] = "done" /\ CountedFailed(i) /\ conn[i] = "open") => closeIssued[i]

\* C8 (as claimed): when connect and query succeeded within the deadline the
\* attempt is counted as successful, also when its close failed.
C8_CloseErrorNotCounted ==
  \A i \in Attempts :
     (Len(seen[i]) = 3 /\ seen[i][1].ok /\ seen[i][2].ok /\ timer[i] # "fired")
        => counted[i] = <<"success">>

\* C9 (as claimed): run with timeoutMs <= 0 starts no attempt, counts no
\* failure and returns no summary.
C9_RejectsNonPositiveTimeout ==
  (harness = "run" /\ timeoutMs <= 0) =>
     /\ \A i \in Attempts : pc[i] = "idle"
     /\ results.failed = 0
     /\ phase # "returned"

\* The outcome attempt i records in run, as a function of what its own adapter
\* calls yielded and of its own timer.
OwnOutcome(i) ==
  IF timer[i] = "fired" THEN ErrorKey(TimeoutError)
  ELSE IF seen[i][Len(seen[i])].ok THEN "success"
  ELSE ErrorKey(seen[i][Len(seen[i])].error)

\* what a step can change of attempt i
Local(i) == <<pc[i], timer[i], client[i], conn[i], closeIssued[i], seen[i], counted[i]>>

\* C10: attempts of one run are independent: every attempt is launched
\* whatever the others do, the outcome attempt i records is the one its own
\* adapter results and timer determine, and no step of one attempt changes
\* anything of another attempt.
C10_AttemptsIndependent ==
  /\ [](harness = "run" /\ phase # "start" =>
          \A i \in Launched :
             /\ pc[i] # "idle"
             /\ pc[i] \in {"cleanup", "done"} => counted[i] = <<OwnOutcome(i)>>
             /\ pc[i] \in {"connect", "query", "close"} => counted[i] = <<>>)
  /\ [][harness = "run" /\ phase # "start" =>
          \A i, j \in Attempts : i < j => (Local(i)' = Local(i) \/ Local(j)' = Local(j))]_vars

\* in one run, an attempt has timed out and finished and another has succeeded
C10_Witness ==
  /\ harness = "run"
  /\ \E i, j \in Launched :
        /\ i # j
        /\ pc[i] = "done" /\ timer[i] = "fired"
        /\ pc[j] = "done" /\ counted[j] = <<"success">>
Last(s) == s[Len(s)]

\* attempt i records a failure or a timeout in this step
RecordsFailure(i) == counted'[i] # counted[i] /\ Last(counted'[i]) # "success"

\* C11: results.errors never holds a key twice, and its order is the order in
\* which the distinct keys were first recorded: a step either leaves it alone
\* or appends, at the end, the key of the failure recorded in that step, which
\* was not in it; a key that is in it stays where it is.
C11_ErrorsDistinctFirstSeen ==
  /\ [](\A a, b \in 1..Len(results.errors) :
           a # b => results.errors[a] # results.errors[b])
  /\ [][\/ results'.errors = results.errors
        \/ \E i \in Attempts :
              /\ RecordsFailure(i)
              /\ ~Includes(results.errors, Last(counted'[i]))
              /\ results'.errors = Append(results.errors, Last(counted'[i]))]_vars
  /\ [][\A i \in Attempts :
           RecordsFailure(i) => Includes(results'.errors, Last(counted'[i]))]_vars

\* several distinct keys were recorded and at least one failure repeated a key
C11_Witness ==
  /\ Len(results.errors) >= 2
  /\ results.failed > Len(results.errors)

\* C12: run(0, timeoutMs) with a valid timeout starts no attempt, its join is
\* ready at once, and the summary it returns is all zero and empty.
C12_EmptyBatch ==
  (harness = "run" /\ totalConnections = 0 /\ timeoutMs > 0) =>
     /\ \A i \in Attempts : pc[i] = "idle" /\ conn[i] = "none" /\ timer[i] = "none"
     /\ results = NewResults
     /\ phase = "running" => ENABLED Join
     /\ phase = "returned" =>
           summary.results = NewResults /\ summary.avgResponseTime = 0

\* run(0, timeoutMs) with a positive timeout has returned
C12_Witness ==
  harness = "run" /\ totalConnections = 0 /\ timeoutMs > 0 /\ phase = "returned"
C14_PrimaryError ==
  (harness = "testDatabase" /\ phase = "returned") =>
     /\ summary.primaryError = "None" <=> summary.results.failed = 0
     /\ summary.results.failed > 0 => summary.primaryError = summary.results.errors[1]

\* C15 (as claimed): a fault raised by the harness's own code inside an
\* attempt is neither counted in results.failed nor added to results.errors.
C15_FaultNotAbsorbed ==
  /\ ~Includes(results.errors, ErrorKey(HarnessFault))
  /\ \A i \in Attempts : \A k \in 1..Len(counted[i]) :
        counted[i][k] # ErrorKey(HarnessFault)

\* C16 (as claimed): when the batch has settled every attempt has taken its
\* memory sample (the one of its finally block), so a batch with attempts
\* reports a peak that is one of the samples.
C16_SampledBeforeSettle ==
  phase = "returned" =>
     /\ \A i \in Launched : pc[i] = "done"
     /\ totalConnections > 0 => summary.results.peakMemory \in MemSamples

\* C17 (as claimed): results.responseTimes has exactly results.successful
\* entries, none of them from an attempt that failed or timed out, and
\* results.errors is non-empty exactly when results.failed > 0.
C17_LatenciesAndErrors ==
  /\ Len(results.responseTimes) = results.successful
  /\ results.errors # <<>> <=> results.failed > 0
  /\ \A i \in Attempts :
        CountedFailed(i) => \A k \in 1..Len(counted[i]) : counted[i][k] # "success"
\* C18 (as claimed): runAllTests is strictly sequential: while the attempts of
\* one database are launched or under way, no connection attempt of an earlier
\* database is still executing.
C18_OneDatabaseAtATime == stale = 0
\* requests that were given an id
WithId == {r \in Requests : req[r].id > 0}

\* C19: no two 201 responses carry the same id or the same code; a request
\* answered 409 found its code in codes:unique and consumed no id, so
\* codes:seq counts exactly the requests that got an id, and every stored hash
\* and every queued id belongs to a request that was not answered 409.
C19_UniqueIdsAndCodes ==
  /\ \A r1, r2 \in Requests :
        (r1 # r2 /\ req[r1].status = 201 /\ req[r2].status = 201) =>
           req[r1].id # req[r2].id /\ req[r1].code # req[r2].code
  /\ \A r1, r2 \in WithId : r1 # r2 => req[r1].id # req[r2].id
  /\ redis.seq = Cardinality(WithId)
  /\ \A r \in Requests :
        req[r].status = 409 => req[r].id = 0 /\ req[r].code \in redis.unique
  /\ \A h \in redis.hashes :
        \E r \in WithId : req[r].id = h.id /\ req[r].code = h.code /\ req[r].status # 409
  /\ \A k \in 1..Len(redis.queue) :
        \E r \in WithId : req[r].id = redis.queue[k] /\ req[r].status # 409

\* two requests were answered 201 and a third, with a code already taken, 409
C19_Witness ==
  \E r1, r2, r3 \in Requests :
     /\ r1 # r2
     /\ req[r1].status = 201 /\ req[r2].status = 201 /\ req[r3].status = 409

\* C20: every id in codes:sync_queue has its code:<id> hash stored, appears in
\* the queue once, and is at most codes:seq.
C20_QueuedIdsStored ==
  /\ \A k \in 1..Len(redis.queue) :
        /\ \E h \in redis.hashes : h.id = redis.queue[k]
        /\ redis.queue[k] <= redis.seq
        /\ redis.queue[k] >= 1
  /\ \A a, b \in 1..Len(redis.queue) : a # b => redis.queue[a] # redis.queue[b]

\* an id is queued while another request has stored its hash and not yet
\* queued its id
C20_Witness ==
  /\ Len(redis.queue) >= 1
  /\ \E r \in Requests :
        /\ req[r].pc = "exec2"
        /\ \E h \in redis.hashes : h.id = req[r].id
        /\ \A k \in 1..Len(redis.queue) : redis.queue[k] # req[r].id
====
